---- MODULE Spec2Model ----
(***************************************************************************)
(* CoreUtilsProvider's promise combinators: allPromises,                   *)
(* executeOrderedPromises, timeoutPromise, ignoreErrors and wait, and      *)
(* CoreDomUtilsProvider.waitElementToExist.  A behaviour is one call of    *)
(* one of them.  Every promise is a state ("pending",                      *)
(* "fulfilled", "rejected") with the list of reactions registered on it;   *)
(* a settled promise moves its reactions to the job queue of the event     *)
(* loop, which runs them one at a time in FIFO order.  Each callback of    *)
(* the source is one action.                                               *)
(***************************************************************************)
EXTENDS Integers, Sequences, FiniteSets, TLC

\* Largest number of promises / step descriptors handed to a call.
MaxLen == 3

\* Largest timeout / delay handed to timeoutPromise and wait, and the last
\* instant of the clock.
MaxTime == 2

\* The receivers a step descriptor can carry: 0 is "no context given".
Receivers == {0, 1}

\* let tries = 100;
Tries == 100

VARIABLES
    api,          \* which method the caller calls
    n,            \* promises.length / orderedPromisesData.length
    blocking,     \* orderedPromisesData[i].blocking
    behav,        \* what input i / data.func of step i does: "ok", "fail", "throw"
    called,       \* the method has been called
    threw,        \* the call itself threw to its caller
    pstate,       \* state of promises[i], the promise handed to allPromises
    perr,         \* rejection reason of promises[i] (0: none, k: the error of operation k)
    prom,         \* state of the promise data.func returned for step i ("none": no such promise)
    adopting,     \* promises[i] has subscribed to prom[i]
    reactions,    \* reactions registered on promises[i], in registration order
    microtasks,   \* the job queue
    count,        \* allPromises: count
    hasFailed,    \* allPromises: hasFailed
    error,        \* allPromises: error (0: undefined)
    aggState,     \* state of the promise the call returned ("none": nothing returned yet)
    aggValue,     \* what it settled with: "undefined", "true", "error"
    aggError,     \* the error it rejected with
    settleCalls,  \* number of resolve/reject calls made on the returned promise
    callLog,      \* steps whose data.func has been invoked, in invocation order
    settleOrder,  \* promises[i] in the order they settled
    settledAtCall, \* the promises[i] already settled when allPromises was called
    ctx,          \* orderedPromisesData[i].context
    thisArg,      \* the receiver data.func of step i was applied to (-1: not invoked)
    context,      \* executeOrderedPromises: context
    opState,      \* state of the promise handed to timeoutPromise / ignoreErrors
    opBehav,      \* how that promise settles: "ok", "fail"
    due,          \* the time / milliseconds argument
    now,          \* time elapsed since the call
    timer,        \* the setTimeout timer: "none", "armed", "fired", "cleared"
    events,       \* "op" (the wrapped promise settled), "timer" (the timer fired), in order
    tries,        \* waitElementToExist: tries
    calls,        \* number of calls of findFunction
    interval      \* the setInterval timer: "none", "active", "cleared"

vars == <<api, n, blocking, behav, called, threw, pstate, perr, prom, adopting,
          reactions, microtasks, count, hasFailed, error, aggState, aggValue,
          aggError, settleCalls, callLog, settleOrder, settledAtCall,
          ctx, thisArg, context, opState, opBehav, due, now, timer, events,
          tries, calls, interval>>

recvVars == <<ctx, thisArg, context>>

timerVars == <<opState, opBehav, due, now, timer, events>>

pollVars == <<tries, calls, interval>>

Job(kind, i) == [kind |-> kind, idx |-> i]

Settled(s) == s \in {"fulfilled", "rejected"}

----------------------------------------------------------------------------
(* executeOrderedPromises: the dependency cursor *)

\* Variants of NextDependency: the blocking flag is never looked at; a
\* non-blocking step puts the cursor back to the initial resolved promise.
NextDependencyIgnoresBlocking(dependency, i) == dependency

NextDependencyResets(dependency, i) == IF blocking[i] THEN i ELSE 0

\* if (data.blocking) { dependency = promise; }   (0 is the initial Promise.resolve())
NextDependency(dependency, i) == IF blocking[i] THEN i ELSE dependency

RECURSIVE DependencyAfter(_)
DependencyAfter(i) ==
    IF i = 0 THEN 0 ELSE NextDependency(DependencyAfter(i - 1), i)

\* The value of `dependency` when the loop reaches step i.
Dependency(i) == DependencyAfter(i - 1)

DependencyState(i) ==
    IF Dependency(i) = 0 THEN "fulfilled" ELSE pstate[Dependency(i)]

RECURSIVE Reverse(_)
Reverse(s) == IF s = <<>> THEN <<>> ELSE Append(Reverse(Tail(s)), Head(s))

\* Variant of StepJobs: the steps are registered last to first.
StepJobsBackwards(k) ==
    SelectSeq(Reverse([i \in 1..n |-> Job("stepThen", i)]),
              LAMBDA j : Dependency(j.idx) = k)

\* The then-reactions the loop registers on dependency k, in loop order.
StepJobs(k) ==
    SelectSeq([i \in 1..n |-> Job("stepThen", i)],
              LAMBDA j : Dependency(j.idx) = k)

\* Variant of ThisArg: a step without context is applied to the carried one.
ThisArgInherited(own, carried) == IF own # 0 THEN own ELSE carried

\* data.func.apply(data.context, data.params || [])
ThisArg(own, carried) == own

\* Variants of CallbackResult: no try/catch around data.func; `return prom`
\* left out.
CallbackResultUncaught(b) == IF b = "throw" THEN "throws" ELSE "prom"

CallbackResultNoReturn(b) == "undefined"

\* What the then-callback of a step does with data.func's behaviour:
\* a synchronous throw is caught and the callback returns undefined,
\* otherwise it returns the promise data.func returned.
CallbackResult(b) == IF b = "throw" THEN "undefined" ELSE "prom"

----------------------------------------------------------------------------
(* allPromises: the closure *)

\* promise.catch(...).then(...) on every input, in forEach order: the reaction
\* of a pending input waits on it, that of a settled input is queued at once.
CatchReactions(i) ==
    IF pstate[i] = "pending" THEN <<Job("catch", i)>> ELSE <<>>

RECURSIVE CatchJobsNow(_)
CatchJobsNow(i) ==
    IF i = 0 THEN <<>>
    ELSE CatchJobsNow(i - 1) \o
         (IF pstate[i] = "pending" THEN <<>> ELSE <<Job("catch", i)>>)

\* Variant of NoPromises: the guard for an empty collection is missing.
NoPromisesUnchecked(len) == FALSE

\* if (!promises || !promises.length)
NoPromises(len) == len = 0

\* Variant of NewError: the first error is kept.
NewErrorKeepsFirst(old, err) == IF old = 0 THEN err ELSE old

\* error = err;
NewError(old, err) == err

\* Variant of AllFinished: the first finished input settles the aggregate.
AllFinishedAtFirst(c, total) == c >= 1

\* if (count === total)
AllFinished(c, total) == c = total

\* Variant of Outcome: hasFailed is not looked at.
OutcomeAlwaysResolves(failed) == "fulfilled"

\* if (hasFailed) reject(error) else resolve(true)
Outcome(failed) == IF failed THEN "rejected" ELSE "fulfilled"

----------------------------------------------------------------------------

Init ==
    /\ api \in {"allPromises", "executeOrderedPromises", "timeoutPromise",
                "ignoreErrors", "wait", "waitElementToExist"}
    /\ n \in 0..MaxLen
    /\ api \notin {"allPromises", "executeOrderedPromises"} => n = 0
    /\ blocking \in [1..n -> BOOLEAN]
    /\ behav \in [1..n -> {"ok", "fail", "throw"}]
    /\ api = "allPromises" =>
          /\ \A i \in 1..n : ~blocking[i]
          /\ \A i \in 1..n : behav[i] # "throw"
    /\ called = FALSE
    /\ threw = FALSE
    /\ pstate = [i \in 1..n |-> "pending"]
    /\ perr = [i \in 1..n |-> 0]
    /\ prom = [i \in 1..n |-> "none"]
    /\ adopting = [i \in 1..n |-> FALSE]
    /\ reactions = [i \in 1..n |-> <<>>]
    /\ microtasks = <<>>
    /\ count = 0
    /\ hasFailed = FALSE
    /\ error = 0
    /\ aggState = "none"
    /\ aggValue = "none"
    /\ aggError = 0
    /\ settleCalls = 0
    /\ callLog = <<>>
    /\ settleOrder = <<>>
    /\ settledAtCall = {}
    \* Receivers are given to the steps of fully blocking pipelines only.
    /\ ctx \in [1..n -> Receivers]
    /\ (\E i \in 1..n : ctx[i] # 0) =>
          (api = "executeOrderedPromises" /\ \A i \in 1..n : blocking[i])
    /\ thisArg = [i \in 1..n |-> -1]
    /\ context = 0
    /\ opState = "pending"
    /\ opBehav \in {"ok", "fail"}
    /\ api \notin {"timeoutPromise", "ignoreErrors"} => opBehav = "ok"
    /\ due \in 0..MaxTime
    /\ api \notin {"timeoutPromise", "wait"} => due = 0
    /\ now = 0
    /\ timer = "none"
    /\ events = <<>>
    /\ tries = 0
    /\ calls = 0
    /\ interval = "none"

\* promises[i] settles with state st and reason e; `rest` is the job queue the
\* settling step leaves behind.  The reactions registered on it are queued.
SettlePromise(i, st, e, rest) ==
    /\ pstate' = [pstate EXCEPT ![i] = st]
    /\ perr' = [perr EXCEPT ![i] = e]
    /\ microtasks' = rest \o reactions[i]
    /\ reactions' = [reactions EXCEPT ![i] = <<>>]
    /\ settleOrder' = Append(settleOrder, i)

\* An input promise of allPromises settles (the caller's operation finishes),
\* before or after the call.
SettleInput(i) ==
    /\ api = "allPromises"
    /\ pstate[i] = "pending"
    /\ SettlePromise(i, IF behav[i] = "fail" THEN "rejected" ELSE "fulfilled",
                     IF behav[i] = "fail" THEN i ELSE 0, microtasks)
    /\ UNCHANGED <<api, n, blocking, behav, called, threw, prom, adopting, count,
                   hasFailed, error, aggState, aggValue, aggError, settleCalls,
                   callLog, settledAtCall>>
    /\ UNCHANGED <<recvVars, timerVars, pollVars>>

\* allPromises(promises)
AllPromises ==
    /\ api = "allPromises"
    /\ ~called
    /\ called' = TRUE
    /\ settledAtCall' = {i \in 1..n : pstate[i] # "pending"}
    /\ IF NoPromises(n)
       THEN /\ aggState' = "fulfilled"
            /\ aggValue' = "undefined"
            /\ UNCHANGED <<reactions, microtasks>>
       ELSE /\ aggState' = "pending"
            /\ aggValue' = aggValue
            /\ reactions' = [i \in 1..n |-> reactions[i] \o CatchReactions(i)]
            /\ microtasks' = microtasks \o CatchJobsNow(n)
    /\ UNCHANGED <<api, n, blocking, behav, threw, pstate, perr, prom, adopting,
                   count, hasFailed, error, aggError, settleCalls, callLog,
                   settleOrder>>
    /\ UNCHANGED <<recvVars, timerVars, pollVars>>

\* executeOrderedPromises(orderedPromisesData): the loop registers every step on
\* its dependency, then allPromises(promises) subscribes to every step's promise.
ExecuteOrderedPromises ==
    /\ api = "executeOrderedPromises"
    /\ ~called
    /\ called' = TRUE
    /\ settledAtCall' = {}
    /\ IF n = 0
       THEN /\ threw' = TRUE
            /\ UNCHANGED <<reactions, microtasks, aggState, context>>
       ELSE /\ threw' = FALSE
            /\ context' = ctx[1]
            /\ microtasks' = microtasks \o StepJobs(0)
            /\ reactions' = [k \in 1..n |-> StepJobs(k) \o CatchReactions(k)]
            /\ aggState' = "pending"
    /\ UNCHANGED <<api, n, blocking, behav, pstate, perr, prom, adopting, count,
                   hasFailed, error, aggValue, aggError, settleCalls, callLog,
                   settleOrder>>
    /\ UNCHANGED <<ctx, thisArg, timerVars, pollVars>>

HeadIs(kind, i) ==
    /\ microtasks # <<>>
    /\ Head(microtasks) = Job(kind, i)

\* dependency.then(() => {...}) with the dependency fulfilled: the callback
\* invokes data.func inside try/catch and the step's promise is resolved with
\* what the callback returns.
StepCallback(i) ==
    /\ HeadIs("stepThen", i)
    /\ DependencyState(i) = "fulfilled"
    /\ callLog' = Append(callLog, i)
    /\ prom' = IF behav[i] = "throw" THEN prom ELSE [prom EXCEPT ![i] = "pending"]
    /\ thisArg' = [thisArg EXCEPT ![i] = ThisArg(ctx[i], context)]
    /\ context' = IF behav[i] = "throw" THEN context ELSE ctx[i]
    /\ ctx' = ctx
    /\ CASE CallbackResult(behav[i]) = "undefined" ->
              SettlePromise(i, "fulfilled", 0, Tail(microtasks))
         [] CallbackResult(behav[i]) = "prom" ->
              /\ microtasks' = Append(Tail(microtasks), Job("resolveThenable", i))
              /\ UNCHANGED <<pstate, perr, reactions, settleOrder>>
         [] OTHER ->
              SettlePromise(i, "rejected", i, Tail(microtasks))
    /\ UNCHANGED <<api, n, blocking, behav, called, threw, adopting, count,
                   hasFailed, error, aggState, aggValue, aggError, settleCalls,
                   settledAtCall>>
    /\ UNCHANGED <<timerVars, pollVars>>

\* dependency.then(() => {...}) with the dependency rejected: then() was given
\* no rejection handler, the callback is skipped and the step's promise rejects
\* with the dependency's reason.
StepSkipped(i) ==
    /\ HeadIs("stepThen", i)
    /\ DependencyState(i) = "rejected"
    /\ SettlePromise(i, "rejected", perr[Dependency(i)], Tail(microtasks))
    /\ UNCHANGED <<api, n, blocking, behav, called, threw, prom, adopting, count,
                   hasFailed, error, aggState, aggValue, aggError, settleCalls,
                   callLog, settledAtCall>>
    /\ UNCHANGED <<recvVars, timerVars, pollVars>>

\* `return prom`: the step's promise was resolved with a promise, so it
\* subscribes to it in a job of its own.
ResolveThenable(i) ==
    /\ HeadIs("resolveThenable", i)
    /\ IF prom[i] = "pending"
       THEN /\ adopting' = [adopting EXCEPT ![i] = TRUE]
            /\ microtasks' = Tail(microtasks)
       ELSE /\ adopting' = adopting
            /\ microtasks' = Append(Tail(microtasks), Job("adopt", i))
    /\ UNCHANGED <<api, n, blocking, behav, called, threw, pstate, perr, prom,
                   reactions, count, hasFailed, error, aggState, aggValue,
                   aggError, settleCalls, callLog, settleOrder, settledAtCall>>
    /\ UNCHANGED <<recvVars, timerVars, pollVars>>

\* The promise data.func returned settles (the step's operation finishes).
SettleProm(i) ==
    /\ api = "executeOrderedPromises"
    /\ prom[i] = "pending"
    /\ prom' = [prom EXCEPT ![i] = IF behav[i] = "fail" THEN "rejected" ELSE "fulfilled"]
    /\ IF adopting[i]
       THEN /\ adopting' = [adopting EXCEPT ![i] = FALSE]
            /\ microtasks' = Append(microtasks, Job("adopt", i))
       ELSE UNCHANGED <<adopting, microtasks>>
    /\ UNCHANGED <<api, n, blocking, behav, called, threw, pstate, perr, reactions,
                   count, hasFailed, error, aggState, aggValue, aggError,
                   settleCalls, callLog, settleOrder, settledAtCall>>
    /\ UNCHANGED <<recvVars, timerVars, pollVars>>

\* The step's promise takes the outcome of the promise data.func returned.
Adopt(i) ==
    /\ HeadIs("adopt", i)
    /\ SettlePromise(i, prom[i], IF prom[i] = "rejected" THEN i ELSE 0,
                     Tail(microtasks))
    /\ UNCHANGED <<api, n, blocking, behav, called, threw, prom, adopting, count,
                   hasFailed, error, aggState, aggValue, aggError, settleCalls,
                   callLog, settledAtCall>>
    /\ UNCHANGED <<recvVars, timerVars, pollVars>>

\* allPromises: promise.catch((err) => { hasFailed = true; error = err; })
\* The handler runs only for a rejected input; either way the promise catch()
\* returned is fulfilled and its then-reaction is queued.
CatchHandler(i) ==
    /\ HeadIs("catch", i)
    /\ IF pstate[i] = "rejected"
       THEN /\ hasFailed' = TRUE
            /\ error' = NewError(error, perr[i])
       ELSE UNCHANGED <<hasFailed, error>>
    /\ microtasks' = Append(Tail(microtasks), Job("then", i))
    /\ UNCHANGED <<api, n, blocking, behav, called, threw, pstate, perr, prom,
                   adopting, reactions, count, aggState, aggValue, aggError,
                   settleCalls, callLog, settleOrder, settledAtCall>>
    /\ UNCHANGED <<recvVars, timerVars, pollVars>>

\* allPromises: .then(() => { count++; if (count === total) {...} })
\* resolve/reject on an already settled promise change nothing.
ThenHandler(i) ==
    /\ HeadIs("then", i)
    /\ count' = count + 1
    /\ microtasks' = Tail(microtasks)
    /\ IF AllFinished(count', n)
       THEN /\ settleCalls' = settleCalls + 1
            /\ IF aggState = "pending"
               THEN /\ aggState' = Outcome(hasFailed)
                    /\ aggValue' = IF Outcome(hasFailed) = "rejected"
                                   THEN "error" ELSE "true"
                    /\ aggError' = IF Outcome(hasFailed) = "rejected"
                                   THEN error ELSE 0
               ELSE UNCHANGED <<aggState, aggValue, aggError>>
       ELSE UNCHANGED <<settleCalls, aggState, aggValue, aggError>>
    /\ UNCHANGED <<api, n, blocking, behav, called, threw, pstate, perr, prom,
                   adopting, reactions, hasFailed, error, callLog, settleOrder,
                   settledAtCall>>
    /\ UNCHANGED <<recvVars, timerVars, pollVars>>

----------------------------------------------------------------------------
(* timeoutPromise, ignoreErrors, wait *)

oldVars == <<n, blocking, behav, threw, pstate, perr, prom, adopting, reactions,
             count, hasFailed, error, aggError, settleCalls, callLog,
             settleOrder, settledAtCall>>

\* Variant of Promised: a later resolve/reject replaces the outcome.
PromisedOverwritten(cur, new) == new

\* new Promise((resolve, reject) => ...): the first call of resolve or reject
\* decides the outcome <<state, value>>, later calls change nothing.
Promised(cur, new) == IF cur[1] = "pending" THEN new ELSE cur

SettleReturned(st, val) ==
    /\ aggState' = Promised(<<aggState, aggValue>>, <<st, val>>)[1]
    /\ aggValue' = Promised(<<aggState, aggValue>>, <<st, val>>)[2]

\* setTimeout(..., time)
TimeoutDelay(time) == time

\* Variant of WaitDelay: the timer is set without its delay.
WaitDelayDropped(milliseconds) == 0

\* setTimeout(resolve, milliseconds)
WaitDelay(milliseconds) == milliseconds

\* Variant of OpAfterTimeout: the timeout also rejects the wrapped promise.
OpCancelledByTimeout(st) == IF st = "pending" THEN "rejected" ELSE st

\* The timer callback calls reject({ timeout: true }) only; the wrapped
\* promise is not touched.
OpAfterTimeout(st) == st

\* Variant of CatchRejects: .catch(reject) is missing.
CatchRejectsNever(st) == FALSE

\* .catch(reject): reject is called when the wrapped promise rejected.
CatchRejects(st) == st = "rejected"

\* Variant of ClearTimeout: clearTimeout is not called.
ClearTimeoutSkipped(t) == t

\* clearTimeout(timeout)
ClearTimeout(t) == IF t = "armed" THEN "cleared" ELSE t

\* Variant of IgnoreErrorsOutcome: no try/catch around the await.
IgnoreErrorsPropagates(st) ==
    IF st = "fulfilled" THEN <<"fulfilled", "value">> ELSE <<"rejected", "error">>

\* try { return await promise; } catch (error) { }
IgnoreErrorsOutcome(st) ==
    IF st = "fulfilled" THEN <<"fulfilled", "value">> ELSE <<"fulfilled", "undefined">>

\* The reaction the called method has registered on the wrapped promise.
FirstReaction ==
    IF api = "timeoutPromise" THEN <<Job("tpThen", 0)>> ELSE <<Job("ieResume", 0)>>

\* The promise handed to timeoutPromise / ignoreErrors settles (the wrapped
\* operation finishes), before or after the call.
SettleOp ==
    /\ api \in {"timeoutPromise", "ignoreErrors"}
    /\ opState = "pending"
    /\ opState' = IF opBehav = "fail" THEN "rejected" ELSE "fulfilled"
    /\ events' = Append(events, "op")
    /\ microtasks' = IF called THEN microtasks \o FirstReaction ELSE microtasks
    /\ UNCHANGED <<api, called, aggState, aggValue, opBehav, due, now, timer,
                   oldVars, recvVars, pollVars>>

\* timeoutPromise(promise, time)
TimeoutPromise ==
    /\ api = "timeoutPromise"
    /\ ~called
    /\ called' = TRUE
    /\ aggState' = "pending"
    /\ timer' = "armed"
    /\ microtasks' = IF opState = "pending" THEN microtasks
                     ELSE microtasks \o FirstReaction
    /\ UNCHANGED <<api, aggValue, opState, opBehav, due, now, events,
                   oldVars, recvVars, pollVars>>

\* Time passes between two tasks of the event loop.
Tick ==
    /\ api \in {"timeoutPromise", "wait"}
    /\ called
    /\ microtasks = <<>>
    /\ now < MaxTime
    /\ now' = now + 1
    /\ UNCHANGED <<api, called, aggState, aggValue, microtasks, opState, opBehav,
                   due, timer, events, oldVars, recvVars, pollVars>>

\* timeoutPromise: setTimeout(() => { reject({ timeout: true }); }, time)
\* A timer callback is a task: it runs when the job queue is empty.
TimeoutFires ==
    /\ api = "timeoutPromise"
    /\ timer = "armed"
    /\ microtasks = <<>>
    /\ now >= TimeoutDelay(due)
    /\ timer' = "fired"
    /\ events' = Append(events, "timer")
    /\ SettleReturned("rejected", "timeout")
    /\ opState' = OpAfterTimeout(opState)
    /\ UNCHANGED <<api, called, microtasks, opBehav, due, now,
                   oldVars, recvVars, pollVars>>

\* timeoutPromise: promise.then(resolve)
TimeoutThen ==
    /\ HeadIs("tpThen", 0)
    /\ IF opState = "fulfilled"
       THEN SettleReturned("fulfilled", "value")
       ELSE UNCHANGED <<aggState, aggValue>>
    /\ microtasks' = Append(Tail(microtasks), Job("tpCatch", 0))
    /\ UNCHANGED <<api, called, timerVars, oldVars, recvVars, pollVars>>

\* timeoutPromise: .catch(reject)
TimeoutCatch ==
    /\ HeadIs("tpCatch", 0)
    /\ IF CatchRejects(opState)
       THEN SettleReturned("rejected", "error")
       ELSE UNCHANGED <<aggState, aggValue>>
    /\ microtasks' = Append(Tail(microtasks), Job("tpClear", 0))
    /\ UNCHANGED <<api, called, timerVars, oldVars, recvVars, pollVars>>

\* timeoutPromise: .then(() => { clearTimeout(timeout); })
TimeoutClear ==
    /\ HeadIs("tpClear", 0)
    /\ timer' = ClearTimeout(timer)
    /\ microtasks' = Tail(microtasks)
    /\ UNCHANGED <<api, called, aggState, aggValue, opState, opBehav, due, now,
                   events, oldVars, recvVars, pollVars>>

\* ignoreErrors(promise): the async function runs up to the await.
IgnoreErrors ==
    /\ api = "ignoreErrors"
    /\ ~called
    /\ called' = TRUE
    /\ aggState' = "pending"
    /\ microtasks' = IF opState = "pending" THEN microtasks
                     ELSE microtasks \o FirstReaction
    /\ UNCHANGED <<api, aggValue, timerVars, oldVars, recvVars, pollVars>>

\* ignoreErrors: the function resumes after the await and returns.
IgnoreErrorsResume ==
    /\ HeadIs("ieResume", 0)
    /\ SettleReturned(IgnoreErrorsOutcome(opState)[1], IgnoreErrorsOutcome(opState)[2])
    /\ microtasks' = Tail(microtasks)
    /\ UNCHANGED <<api, called, timerVars, oldVars, recvVars, pollVars>>

\* wait(milliseconds)
Wait ==
    /\ api = "wait"
    /\ ~called
    /\ called' = TRUE
    /\ aggState' = "pending"
    /\ timer' = "armed"
    /\ UNCHANGED <<api, aggValue, microtasks, opState, opBehav, due, now, events,
                   oldVars, recvVars, pollVars>>

\* wait: setTimeout(resolve, milliseconds) calls resolve()
WaitFires ==
    /\ api = "wait"
    /\ timer = "armed"
    /\ microtasks = <<>>
    /\ now >= WaitDelay(due)
    /\ timer' = "fired"
    /\ events' = Append(events, "timer")
    /\ SettleReturned("fulfilled", "undefined")
    /\ UNCHANGED <<api, called, microtasks, opState, opBehav, due, now,
                   oldVars, recvVars, pollVars>>

----------------------------------------------------------------------------
(* waitElementToExist *)

\* Variant of TriesExhausted: one poll too many.
TriesExhaustedLate(t) == t < 0

\* if (tries <= 0)
TriesExhausted(t) == t <= 0

\* waitElementToExist(findFunction)
WaitElementToExist ==
    /\ api = "waitElementToExist"
    /\ ~called
    /\ called' = TRUE
    /\ tries' = Tries
    /\ aggState' = "pending"
    /\ interval' = "active"
    /\ UNCHANGED <<api, aggValue, microtasks, calls, oldVars, recvVars, timerVars>>

\* The setInterval callback; `found` is whether findFunction() returns an
\* element.
Poll(found) ==
    /\ api = "waitElementToExist"
    /\ interval = "active"
    /\ microtasks = <<>>
    /\ calls' = calls + 1
    /\ IF found
       THEN /\ interval' = "cleared"
            /\ SettleReturned("fulfilled", "element")
            /\ tries' = tries
       ELSE /\ tries' = tries - 1
            /\ IF TriesExhausted(tries')
               THEN /\ interval' = "cleared"
                    /\ SettleReturned("rejected", "undefined")
               ELSE UNCHANGED <<interval, aggState, aggValue>>
    /\ UNCHANGED <<api, called, microtasks, oldVars, recvVars, timerVars>>

PollAny == \E found \in BOOLEAN : Poll(found)

\* One job of the event loop's job queue.
RunMicrotask ==
    \/ \E i \in 1..n : StepCallback(i)
    \/ \E i \in 1..n : StepSkipped(i)
    \/ \E i \in 1..n : ResolveThenable(i)
    \/ \E i \in 1..n : Adopt(i)
    \/ \E i \in 1..n : CatchHandler(i)
    \/ \E i \in 1..n : ThenHandler(i)
    \/ TimeoutThen
    \/ TimeoutCatch
    \/ TimeoutClear
    \/ IgnoreErrorsResume

Next ==
    \/ AllPromises
    \/ ExecuteOrderedPromises
    \/ \E i \in 1..n : SettleInput(i)
    \/ \E i \in 1..n : SettleProm(i)
    \/ RunMicrotask
    \/ TimeoutPromise
    \/ IgnoreErrors
    \/ Wait
    \/ SettleOp
    \/ Tick
    \/ TimeoutFires
    \/ WaitFires
    \/ WaitElementToExist
    \/ PollAny

Spec == Init /\ [][Next]_vars

\* The event loop runs every queued job and keeps running an active interval.
FairSpec == Spec /\ WF_vars(RunMicrotask) /\ WF_vars(PollAny)

----------------------------------------------------------------------------
(* Properties *)

Invoked == {callLog[k] : k \in 1..Len(callLog)}

Pos(i) == CHOOSE k \in 1..Len(callLog) : callLog[k] = i

Rejected == {i \in 1..n : pstate[i] = "rejected"}

Last(s) == s[Len(s)]

\* The inputs in the order allPromises comes to see them settled: those
\* already settled at the call in declaration order, then the others in the
\* order they settle.
RECURSIVE Declared(_)
Declared(i) ==
    IF i = 0 THEN <<>>
    ELSE Declared(i - 1) \o (IF i \in settledAtCall THEN <<i>> ELSE <<>>)

Observed ==
    Declared(n) \o SelectSeq(settleOrder, LAMBDA i : i \notin settledAtCall)

RejectedInSettleOrder == SelectSeq(settleOrder, LAMBDA i : pstate[i] = "rejected")

RejectedAsObserved == SelectSeq(Observed, LAMBDA i : pstate[i] = "rejected")

\* C1: whenever the promise allPromises returned has settled, every input
\* promise has settled; an early rejection does not settle it.
C1_SettlesOnlyAfterAllInputs ==
    Settled(aggState) => \A i \in 1..n : Settled(pstate[i])

\* C1 witness: a rejection has been seen by the catch handler, another input
\* is still pending and the aggregate is still pending.
C1_Witness ==
    /\ api = "allPromises"
    /\ aggState = "pending"
    /\ hasFailed
    /\ \E i \in 1..n : pstate[i] = "pending"

\* C2 as stated: with two or more rejected inputs the aggregate rejects with the
\* error of the input that rejected first in settlement order.
C2_FirstFailureWins ==
    (aggState = "rejected" /\ Cardinality(Rejected) >= 2)
        => aggError = perr[Head(RejectedInSettleOrder)]

\* C2 amended: the aggregate rejects with the error of the rejected input that
\* allPromises saw last: the last to reject in settlement order, the inputs
\* already rejected at the call counting first, in declaration order.
C2_LastFailureWins ==
    (api \in {"allPromises", "executeOrderedPromises"} /\ aggState = "rejected")
        => aggError = perr[Last(RejectedAsObserved)]

\* C2 witness: two inputs rejected after the call, and the aggregate carries
\* the error of the later one, not of the earlier one.
C2_Witness ==
    /\ api = "allPromises"
    /\ settledAtCall = {}
    /\ aggState = "rejected"
    /\ Len(RejectedInSettleOrder) >= 2
    /\ aggError = Last(RejectedInSettleOrder)
    /\ aggError # Head(RejectedInSettleOrder)

AllInputsSettled == called /\ n > 0 /\ \A i \in 1..n : Settled(pstate[i])

C3_Safety ==
    /\ settleCalls <= 1
    /\ (n > 0 /\ Settled(aggState)) =>
          /\ settleCalls = 1
          /\ aggState = "rejected" <=> Rejected # {}
          /\ aggState = "fulfilled" <=> Rejected = {}

\* C3: for a non-empty collection, resolve/reject is called at most once on the
\* returned promise, a settled aggregate is rejected exactly when some input
\* rejected, and once all inputs have settled the aggregate eventually settles.
C3_SettlesExactlyOnce ==
    /\ []C3_Safety
    /\ AllInputsSettled ~> Settled(aggState)

\* C3 witness: allPromises over several inputs resolved after one call of
\* resolve.
C3_Witness ==
    /\ api = "allPromises"
    /\ n >= 2
    /\ aggState = "fulfilled"
    /\ settleCalls = 1

\* C4: the step after a blocking step is invoked only when the blocking step's
\* promise, and the promise its operation returned, have settled.
C4_BlockingStepSettlesFirst ==
    \A j \in 2..n :
        (j \in Invoked /\ blocking[j - 1]) =>
            /\ Settled(pstate[j - 1])
            /\ prom[j - 1] # "pending"

\* C4 witness: a blocking first step returned a promise, it settled, and the
\* second step has been invoked.
C4_Witness ==
    /\ n >= 2
    /\ blocking[1]
    /\ prom[1] = "fulfilled"
    /\ 2 \in Invoked

\* C5: once the value a step waits on has settled, fulfilled or rejected, and
\* the job queue has drained, the step's operation has been invoked.
C5_RejectedDependencyStillRunsNext ==
    \A j \in 1..n :
        (api = "executeOrderedPromises" /\ called /\ ~threw
            /\ microtasks = <<>> /\ Settled(DependencyState(j)))
            => j \in Invoked

\* C6 as stated: when some step's operation threw synchronously, the settled
\* pipeline promise is rejected.
C6_ThrowCountsAsFailure ==
    (Settled(aggState) /\ \E i \in Invoked : behav[i] = "throw")
        => aggState = "rejected"

\* C6 amended: a step whose operation throws synchronously has its promise
\* fulfilled, and the settled pipeline promise is rejected exactly when the
\* promise returned by some step's operation rejected.
C6_ThrowCountsAsSuccess ==
    /\ \A i \in Invoked : behav[i] = "throw" => pstate[i] = "fulfilled"
    /\ (api = "executeOrderedPromises" /\ Settled(aggState)) =>
          (aggState = "rejected" <=> \E i \in 1..n : prom[i] = "rejected")

\* C6 witness: a step threw and the pipeline promise resolved.
C6_Witness ==
    /\ \E i \in Invoked : behav[i] = "throw"
    /\ aggState = "fulfilled"

\* C7: a synchronous throw of a step does not reach the caller, and when the
\* pipeline promise has settled every step declared after the throwing step
\* has been invoked.
C7_ThrowDoesNotStopLaterSteps ==
    \A i \in Invoked :
        behav[i] = "throw" =>
            /\ ~threw
            /\ Settled(aggState) => \A j \in (i + 1)..n : j \in Invoked

\* C8: for steps [A(blocking), B(non-blocking), C(blocking)], C is invoked
\* only after A has settled and after B has been invoked.
C8_NonBlockingDoesNotDelay ==
    (n >= 3 /\ blocking[1] /\ ~blocking[2] /\ blocking[3] /\ 3 \in Invoked) =>
        /\ Settled(pstate[1])
        /\ prom[1] # "pending"
        /\ 2 \in Invoked
        /\ Pos(2) < Pos(3)

\* C8 witness: C has been invoked while the promise B's operation returned is
\* still pending.
C8_Witness ==
    /\ n >= 3
    /\ blocking[1] /\ ~blocking[2] /\ blocking[3]
    /\ 3 \in Invoked
    /\ prom[2] = "pending"
    /\ pstate[2] = "pending"

\* C9: the pipeline promise is settled only when every step's promise and the
\* promise every invoked operation returned have settled, and it is fulfilled
\* only when none of them rejected.
C9_EveryStepIsTracked ==
    api = "executeOrderedPromises" =>
        /\ Settled(aggState) =>
              \A i \in 1..n : Settled(pstate[i]) /\ prom[i] # "pending"
        /\ aggState = "fulfilled" =>
              \A i \in 1..n : pstate[i] = "fulfilled" /\ prom[i] # "rejected"

\* C9 witness: only a non-blocking step is still running, every other step has
\* settled, and the pipeline promise is still pending.
C9_Witness ==
    /\ n >= 2
    /\ aggState = "pending"
    /\ \E i \in 1..n :
          /\ ~blocking[i]
          /\ prom[i] = "pending"
          /\ \A j \in (1..n) \ {i} : Settled(pstate[j])

\* C10: the operations are invoked in declaration order.
C10_InvokedInDeclarationOrder ==
    \A a, b \in 1..Len(callLog) : a < b => callLog[a] < callLog[b]

\* C10 witness: three steps, blocking and non-blocking, have all been invoked.
C10_Witness ==
    /\ Len(callLog) >= 3
    /\ \E i, j \in 1..n : blocking[i] /\ ~blocking[j]

\* The receiver step i would use if a missing context were inherited from the
\* step before it.
RECURSIVE Inherited(_)
Inherited(i) ==
    IF i = 0 THEN 0 ELSE IF ctx[i] # 0 THEN ctx[i] ELSE Inherited(i - 1)

\* C15 as stated: a step is invoked against its own receiver if it has one,
\* otherwise against the receiver of the preceding step.
C15_ReceiverInherited ==
    \A i \in Invoked : thisArg[i] = Inherited(i)

\* C15 amended: a step is always invoked against its own receiver, which is
\* undefined when the descriptor carries none; nothing is inherited.
C15_OwnReceiverOnly ==
    \A i \in Invoked : thisArg[i] = ctx[i]

\* C15 witness: a step without receiver, declared after a step with one, has
\* been invoked against undefined.
C15_Witness ==
    \E i \in Invoked :
        /\ i > 1
        /\ (i - 1) \in Invoked
        /\ ctx[i] = 0
        /\ thisArg[i - 1] = 1
        /\ context = 0
        /\ thisArg[i] = 0

\* C16: executeOrderedPromises called with no step returns a resolved promise
\* and does not throw.
C16_EmptyPipelineResolves ==
    (api = "executeOrderedPromises" /\ called /\ n = 0) =>
        /\ ~threw
        /\ aggState = "fulfilled"

\* C17: allPromises called with no promise returns an already resolved promise
\* with no payload; nothing is registered, queued or counted.
C17_EmptyCollectionResolves ==
    (api = "allPromises" /\ called /\ n = 0) =>
        /\ aggState = "fulfilled"
        /\ aggValue = "undefined"
        /\ microtasks = <<>>
        /\ count = 0
        /\ settleCalls = 0

\* C17 witness: allPromises has been called with an empty collection.
C17_Witness ==
    /\ api = "allPromises"
    /\ called
    /\ n = 0
    /\ aggState = "fulfilled"

\* The outcome <<state, value>> of the wrapped promise once it has settled.
OpOutcome ==
    IF opState = "fulfilled" THEN <<"fulfilled", "value">> ELSE <<"rejected", "error">>

OpFirst == events # <<>> /\ Head(events) = "op"

TimerFirst == events # <<>> /\ Head(events) = "timer"

\* C11: once the promise timeoutPromise returned has settled, no later step
\* (the timer firing, the wrapped promise settling, a handler running) changes
\* its state or value, and a settled outcome is the operation's result, the
\* operation's error or the timeout marker.
C11_SettlesOnce ==
    /\ [][(api = "timeoutPromise" /\ Settled(aggState))
            => (aggState' = aggState /\ aggValue' = aggValue)]_vars
    /\ []((api = "timeoutPromise" /\ Settled(aggState)) =>
            <<aggState, aggValue>> \in {<<"fulfilled", "value">>,
                                        <<"rejected", "error">>,
                                        <<"rejected", "timeout">>})

\* C11 witness: the timer fired first, the wrapped promise fulfilled later, its
\* handlers have run, and the outcome is still the timeout marker.
C11_Witness ==
    /\ api = "timeoutPromise"
    /\ events = <<"timer", "op">>
    /\ opState = "fulfilled"
    /\ microtasks = <<>>
    /\ <<aggState, aggValue>> = <<"rejected", "timeout">>

\* C12: when the wrapped promise settled before the timer fired, the returned
\* promise takes the wrapped promise's outcome; when the timer fired first it
\* is rejected with the timeout marker; it carries the timeout marker only if
\* the timer fired first, and the timer fires no earlier than `time`.
C12_FirstEventDecides ==
    (api = "timeoutPromise" /\ called) =>
        /\ (OpFirst /\ Settled(aggState)) => <<aggState, aggValue>> = OpOutcome
        /\ (OpFirst /\ microtasks = <<>>) => <<aggState, aggValue>> = OpOutcome
        /\ TimerFirst => <<aggState, aggValue>> = <<"rejected", "timeout">>
        /\ aggValue = "timeout" => (TimerFirst /\ now >= due)

\* C12 witness: the wrapped promise rejected before the deadline and the
\* returned promise is rejected with its error.
C12_Witness ==
    /\ api = "timeoutPromise"
    /\ OpFirst
    /\ now < due
    /\ <<aggState, aggValue>> = <<"rejected", "error">>

\* C13: when the wrapped promise settled before the timer fired, the timer
\* callback never runs, and the timer is cleared once the handlers have run.
C13_TimerCancelled ==
    (api = "timeoutPromise" /\ called /\ OpFirst) =>
        /\ timer # "fired"
        /\ events = <<"op">>
        /\ microtasks = <<>> => timer = "cleared"

\* C13 witness: the wrapped promise settled in time, the timer is cleared and
\* the deadline has passed without the callback running.
C13_Witness ==
    /\ api = "timeoutPromise"
    /\ OpFirst
    /\ due > 0
    /\ timer = "cleared"
    /\ now >= due

\* C14: the promise ignoreErrors returned is never rejected; once the wrapped
\* promise has settled and the function has resumed it is fulfilled, with the
\* result when the wrapped promise fulfilled and with undefined when it rejected.
C14_NeverRejects ==
    api = "ignoreErrors" =>
        /\ aggState # "rejected"
        /\ (called /\ Settled(opState) /\ microtasks = <<>>) =>
              /\ aggState = "fulfilled"
              /\ aggValue = IF opState = "fulfilled" THEN "value" ELSE "undefined"

\* C14 witness: the wrapped promise rejected and the returned promise is
\* fulfilled with undefined.
C14_Witness ==
    /\ api = "ignoreErrors"
    /\ opState = "rejected"
    /\ <<aggState, aggValue>> = <<"fulfilled", "undefined">>

\* C18: the promise wait returned is pending as long as its timer has not
\* fired, the timer fires no earlier than `milliseconds`, and the promise is
\* then fulfilled with undefined, never rejected.
C18_SettlesThroughTimer ==
    (api = "wait" /\ called) =>
        /\ aggState # "rejected"
        /\ timer = "armed" => aggState = "pending"
        /\ Settled(aggState) =>
              /\ timer = "fired"
              /\ now >= due
              /\ <<aggState, aggValue>> = <<"fulfilled", "undefined">>

\* C18 witness: wait(0) has returned and its promise is still pending.
C18_Witness ==
    /\ api = "wait"
    /\ called
    /\ due = 0
    /\ timer = "armed"
    /\ aggState = "pending"

\* C19: the wrapped promise changes state only by settling on its own: it is
\* pending until its own settlement and then holds its own outcome, also after
\* the returned promise was rejected with the timeout marker.
C19_OperationUntouched ==
    api = "timeoutPromise" =>
        /\ opState = "pending" <=> events \in {<<>>, <<"timer">>}
        /\ Settled(opState) =>
              opState = (IF opBehav = "fail" THEN "rejected" ELSE "fulfilled")

\* C19 witness: the returned promise was rejected with the timeout marker and
\* the wrapped promise fulfilled afterwards.
C19_Witness ==
    /\ api = "timeoutPromise"
    /\ aggValue = "timeout"
    /\ events = <<"timer", "op">>
    /\ opState = "fulfilled"

C20_Safety ==
    (api = "waitElementToExist" /\ called) =>
        /\ calls <= Tries
        /\ aggState = "pending" <=> interval = "active"
        /\ Settled(aggState) <=> interval = "cleared"
        /\ aggState = "pending" => (tries > 0 /\ calls = Tries - tries)
        /\ aggState = "fulfilled" =>
              (aggValue = "element" /\ tries > 0 /\ calls = Tries - tries + 1)
        /\ aggState = "rejected" => (tries = 0 /\ calls = Tries)

\* C20: waitElementToExist calls findFunction at most 100 times; its promise
\* is pending exactly while the interval is active, is fulfilled with the
\* element by the first poll that finds one, and is rejected by the 100th poll
\* in a row that finds none; after it settled nothing is polled or settled
\* again; and it always settles.
C20_PollingTerminates ==
    /\ []C20_Safety
    /\ [][(api = "waitElementToExist" /\ Settled(aggState))
            => (calls' = calls /\ aggState' = aggState /\ aggValue' = aggValue)]_vars
    /\ (api = "waitElementToExist" /\ called) ~> Settled(aggState)

\* C20 witness: 100 polls found nothing and the promise is rejected.
C20_Witness ==
    /\ api = "waitElementToExist"
    /\ calls = Tries
    /\ aggState = "rejected"
    /\ interval = "cleared"

====
